---------------------------- MODULE Spec2Model ----------------------------
(* Admin identity and credential recovery of artsserver (src/server.js):   *)
(* signup, login, the bearer-token middleware guarding the gallery, and    *)
(* the OTP password reset kept in two process-wide variables.              *)
(*                                                                         *)
(* Every Express handler is an async function: it runs synchronously up   *)
(* to an await, and other handlers and timer callbacks run between two     *)
(* awaits.  One action models one such synchronous segment together with   *)
(* the store operation whose completion starts it.                         *)
EXTENDS Integers, Sequences, FiniteSets, TLC

VARIABLES
    admins,        \* the Admin collection, in insertion (natural) order
    gallery,       \* the Gallery collection, in insertion order
    generatedOTP,  \* let generatedOTP (server.js:342)
    resetMail,     \* let resetMail (server.js:343)
    userMail,      \* the implicit global created by server.js:407
    timers,        \* deadlines of the pending setTimeout callbacks, in arming order
    now,           \* the clock, in seconds
    reqs,          \* the requests in flight, each with its handler's position
    last,          \* the request answered most recently, with its response
    nreq,          \* history: how many requests have been received
    chal,          \* history: the challenge most recently stored by generate-otp, and
                   \* whether a verification has completed since
    lastReset,     \* history: per email, the password of the last completed reset
    granted,       \* history: the emails whose signup was answered 201
    tokens,        \* the tokens that login has handed to its callers
    ticks          \* history: how many times the clock has advanced

vars == <<admins, gallery, generatedOTP, resetMail, userMail, timers, now,
          reqs, last, nreq, chal, lastReset, granted, tokens, ticks>>

-----------------------------------------------------------------------------
(* Bounds of the model *)

MaxReq == 3        \* requests received in one run
MaxTicks == 2      \* clock advances in one run

(* Program constants *)

SaltRounds == 10           \* bcrypt.hash(password, 10)
OtpMin == 100000           \* Math.floor(100000 + Math.random() * 900000)
OtpRange == 900000
OtpTimeoutMs == 10 * 60 * 1000   \* setTimeout(..., 10 * 60 * 1000)
MsPerSecond == 1000
OtpTimeout == OtpTimeoutMs \div MsPerSecond    \* the timer's delay in seconds
TokenLifetime == 60 * 60   \* expiresIn: '1h', in seconds

-----------------------------------------------------------------------------
(* JavaScript values *)

Undefined == "<undefined>"     \* a field absent from the JSON body

EmptyString == [t |-> "string", n |-> 0]       \* ''
Num(n) == [t |-> "number", n |-> n]
NaN == [t |-> "NaN", n |-> 0]
NotSent == [t |-> "undefined", n |-> 0]

\* a == b for the values above: a string is converted to a number first, '' to 0
LooseEquals(a, b) ==
    /\ a.t \in {"number", "string"} /\ b.t \in {"number", "string"}
    /\ a.n = b.n

\* a === b for the values above: same type, same value, and NaN equals nothing
StrictEquals(a, b) == a.t = b.t /\ a.t # "NaN" /\ a.n = b.n

Min(S) == CHOOSE x \in S : \A y \in S : x <= y

-----------------------------------------------------------------------------
(* bcrypt *)

NoHash == [alg |-> "none", rounds |-> 0, plain |-> ""]

\* bcrypt.hash(plain, 10): a digest that records its cost and is not the plaintext
BcryptHash(plain) == [alg |-> "bcrypt", rounds |-> SaltRounds, plain |-> plain]

\* bcrypt.compare(plain, digest)
BcryptCompare(plain, digest) == digest.alg = "bcrypt" /\ digest.plain = plain

-----------------------------------------------------------------------------
(* The Admin collection *)

NullDoc == [id |-> 0, name |-> "", email |-> "", mobile |-> "", password |-> NoHash]

\* mongoose "required: true" on a String path: undefined and '' both fail
Required(v) == v # Undefined /\ v # ""

\* adminSchema: four required String paths and no unique index
AdminValid(doc) ==
    /\ Required(doc.name)
    /\ Required(doc.email)
    /\ Required(doc.mobile)
    /\ doc.password # NoHash

\* Admin.findOne({$or: [{mobile: m}, {email: e}]}): the first match in natural order
FindByMobileOrEmail(m, e) ==
    LET S == {i \in DOMAIN admins : admins[i].mobile = m \/ admins[i].email = e}
    IN  IF S = {} THEN NullDoc ELSE admins[Min(S)]

\* Admin.findOne({email: e})
FindByEmail(e) ==
    LET S == {i \in DOMAIN admins : admins[i].email = e}
    IN  IF S = {} THEN NullDoc ELSE admins[Min(S)]

\* newAdmin.save(): insert a document with a fresh _id
InsertAdmin(name, mobile, email, hashedPass) ==
    Append(admins, [id |-> Len(admins) + 1, name |-> name, email |-> email,
                    mobile |-> mobile, password |-> hashedPass])

\* admin.save() after admin.password = hashedPass: $set password on that _id
UpdatePassword(doc, hashedPass) ==
    [i \in DOMAIN admins |->
        IF admins[i].id = doc.id THEN [admins[i] EXCEPT !.password = hashedPass]
        ELSE admins[i]]

-----------------------------------------------------------------------------
(* jsonwebtoken *)

Secret == "MY_SECRET_CODE"
OtherKey == "not-the-secret"

NoJwt == [id |-> 0, username |-> "", iat |-> 0, exp |-> 0, key |-> "", signedExp |-> 0]

\* jwt.sign({id, username}, key, {expiresIn: '1h'}) at clock reading t.  The
\* signature covers the payload: signedExp is the exp the signature was made over.
JwtSign(id, username, key, t) ==
    [id |-> id, username |-> username, iat |-> t, exp |-> t + TokenLifetime,
     key |-> key, signedExp |-> t + TokenLifetime]

\* JwtVerify that still accepts at the very second exp names
JwtVerifyLate(tok, t) ==
    /\ tok # NoJwt
    /\ tok.key = Secret
    /\ tok.signedExp = tok.exp
    /\ t <= tok.exp

\* jwt.verify(token, secret) returns the payload; it throws on a bad signature
\* and when the clock has reached exp
JwtVerify(tok, t) ==
    /\ tok # NoJwt
    /\ tok.key = Secret
    /\ tok.signedExp = tok.exp
    /\ t < tok.exp


-----------------------------------------------------------------------------
(* Requests *)

NoChallenge ==
    [n |-> 0, code |-> NotSent, mail |-> "", issuedAt |-> 0, used |-> FALSE,
     failed |-> FALSE, done |-> {}]

\* A request as its handler starts.  The fields from "at" on are history, filled
\* in by the handlers they matter to: the clock, the store and the challenge as
\* they were when the request came in.
Req(kind, body) ==
    [kind |-> kind, body |-> body, pc |-> "new", status |-> 0,
     doc |-> NullDoc, hashedPass |-> NoHash, mail |-> "",
     jwtToken |-> NoJwt, otp |-> NotSent, auth |-> "none", details |-> Undefined,
     at |-> 0, seen |-> <<>>, chalSeen |-> NoChallenge, resetSeen |-> Undefined,
     stored |-> NotSent, live |-> NotSent, again |-> FALSE]

\* no request answered yet
NoReq ==
    [kind |-> "none", body |-> [none |-> 0], pc |-> "done", status |-> 0,
     doc |-> NullDoc, hashedPass |-> NoHash, mail |-> "",
     jwtToken |-> NoJwt, otp |-> NotSent, auth |-> "none", details |-> Undefined,
     at |-> 0, seen |-> <<>>, chalSeen |-> NoChallenge, resetSeen |-> Undefined,
     stored |-> NotSent, live |-> NotSent, again |-> FALSE]

\* res.status(status).json(...)
Respond(r, status) == [r EXCEPT !.pc = "done", !.status = status]

Remove(seq, i) == SubSeq(seq, 1, i - 1) \o SubSeq(seq, i + 1, Len(seq))

\* a request comes in and its handler runs to its first await or to its response
Arrive(r) ==
    /\ nreq < MaxReq
    /\ nreq' = nreq + 1
    /\ IF r.pc = "done"
       THEN reqs' = reqs /\ last' = r
       ELSE reqs' = Append(reqs, r) /\ last' = last

\* the handler of request i goes on to its next await
Continue(i, r) == reqs' = [reqs EXCEPT ![i] = r] /\ UNCHANGED <<last, nreq>>

\* the handler of request i sends its response
Finish(i, r) == reqs' = Remove(reqs, i) /\ last' = r /\ UNCHANGED nreq

Awaiting(i, kind, pc) == reqs[i].kind = kind /\ reqs[i].pc = pc

otpVars == <<generatedOTP, resetMail, userMail, timers>>
clock == <<now, ticks>>
hist == <<chal, lastReset, granted, tokens>>

-----------------------------------------------------------------------------
(* POST /admin/signup *)

\* lines 155-168: the existence lookup and what follows it up to bcrypt.hash
SignupFindOne(body) ==
    /\ LET r == Req("signup", body)
           existingAdmin == FindByMobileOrEmail(body.mobile, body.email)
       IN  Arrive(IF existingAdmin # NullDoc THEN Respond(r, 409)
                  ELSE IF body.password = Undefined THEN Respond(r, 500)
                  ELSE [r EXCEPT !.pc = "hash"])
    /\ UNCHANGED <<admins, gallery, otpVars, clock, hist>>

\* lines 168-179: the hash resolves, the document is built and save is called
SignupHash(i) ==
    /\ Awaiting(i, "signup", "hash")
    /\ Continue(i, [reqs[i] EXCEPT !.pc = "save",
                                   !.hashedPass = BcryptHash(reqs[i].body.password)])
    /\ UNCHANGED <<admins, gallery, otpVars, clock, hist>>

\* lines 179-185: save validates and inserts; a validation error is a 500
SignupSave(i) ==
    /\ Awaiting(i, "signup", "save")
    /\ LET b == reqs[i].body
           doc == [id |-> 0, name |-> b.name, email |-> b.email,
                   mobile |-> b.mobile, password |-> reqs[i].hashedPass]
       IN  IF AdminValid(doc)
           THEN /\ admins' = InsertAdmin(b.name, b.mobile, b.email, reqs[i].hashedPass)
                /\ granted' = granted \cup {b.email}
                /\ Finish(i, [Respond(reqs[i], 201) EXCEPT
                                !.again = (b.email \in granted)])
           ELSE /\ UNCHANGED <<admins, granted>>
                /\ Finish(i, Respond(reqs[i], 500))
    /\ UNCHANGED <<gallery, otpVars, clock, chal, lastReset, tokens>>

-----------------------------------------------------------------------------
(* POST /admin/login *)

\* lines 190-198, 211-213: the lookup and what follows it up to bcrypt.compare
LoginFindOne(body) ==
    /\ LET r == [Req("login", body) EXCEPT
                    !.seen = admins,
                    !.resetSeen = IF body.username \in DOMAIN lastReset
                                  THEN lastReset[body.username] ELSE Undefined]
           existingAdmin == FindByMobileOrEmail(body.username, body.username)
       IN  Arrive(IF existingAdmin = NullDoc THEN Respond(r, 404)
                  ELSE IF body.password = Undefined THEN Respond(r, 500)
                  ELSE [r EXCEPT !.pc = "compare", !.doc = existingAdmin])
    /\ UNCHANGED <<admins, gallery, otpVars, clock, hist>>

\* lines 198-210: the comparison resolves; a token is signed or 401 is sent
LoginCompare(i) ==
    /\ Awaiting(i, "login", "compare")
    /\ LET r == reqs[i]
           validPass == BcryptCompare(r.body.password, r.doc.password)
           token == JwtSign(r.doc.id, r.body.username, Secret, now)
       IN  IF validPass
           THEN /\ Finish(i, [Respond(r, 200) EXCEPT !.jwtToken = token])
                /\ tokens' = tokens \cup {token}
           ELSE /\ Finish(i, Respond(r, 401))
                /\ tokens' = tokens
    /\ UNCHANGED <<admins, gallery, otpVars, clock, chal, lastReset, granted>>

-----------------------------------------------------------------------------
(* POST /generate-otp *)

OtpMax == OtpMin + OtpRange - 1

\* Math.floor(100000 + Math.random() * 900000) yields OtpMin .. OtpMax; the
\* model draws the two ends of that range
OtpCodes == {OtpMin, OtpMax}

\* GenerateFindOne with line 355 moved above the existence check: resetMail is
\* assigned before the lookup's result is looked at
GenerateFindOneTargetFirst(body) ==
    /\ LET r == Req("generate-otp", body)
           existingAdmin == FindByEmail(body.userMail)
       IN  /\ resetMail' = body.userMail
           /\ IF existingAdmin = NullDoc
              THEN /\ Arrive(Respond(r, 404))
                   /\ UNCHANGED <<generatedOTP, chal>>
              ELSE \E code \in OtpCodes :
                   LET stored == [n |-> chal.n + 1, code |-> Num(code),
                                  mail |-> body.userMail, issuedAt |-> now,
                                  used |-> FALSE, failed |-> FALSE, done |-> chal.done]
                   IN  /\ generatedOTP' = Num(code)
                       /\ chal' = stored
                       /\ Arrive([r EXCEPT !.pc = "sendMail", !.stored = Num(code),
                                           !.chalSeen = stored])
    /\ UNCHANGED <<admins, gallery, userMail, timers, clock, lastReset, granted, tokens>>

\* lines 347-368: the lookup, then resetMail and generatedOTP are assigned in one
\* synchronous run and sendMail is called
GenerateFindOne(body) ==
    /\ LET r == Req("generate-otp", body)
           existingAdmin == FindByEmail(body.userMail)
       IN  IF existingAdmin = NullDoc
           THEN /\ Arrive(Respond(r, 404))
                /\ UNCHANGED <<resetMail, generatedOTP, chal>>
           ELSE \E code \in OtpCodes :
                LET stored == [n |-> chal.n + 1, code |-> Num(code),
                               mail |-> body.userMail, issuedAt |-> now,
                               used |-> FALSE, failed |-> FALSE, done |-> chal.done]
                IN  /\ resetMail' = body.userMail
                    /\ generatedOTP' = Num(code)
                    /\ chal' = stored
                    /\ Arrive([r EXCEPT !.pc = "sendMail", !.stored = Num(code),
                                        !.chalSeen = stored])
    /\ UNCHANGED <<admins, gallery, userMail, timers, clock, lastReset, granted, tokens>>

\* lines 368-386: sendMail resolves (the timer is armed and the response carries
\* the current generatedOTP) or rejects (500, nothing else happens)
GenerateSendMail(i, sent) ==
    /\ Awaiting(i, "generate-otp", "sendMail")
    /\ IF sent
       THEN /\ timers' = Append(timers, now + OtpTimeout)
            /\ Finish(i, [Respond(reqs[i], 200) EXCEPT !.otp = generatedOTP,
                                                       !.live = generatedOTP,
                                                       !.mail = resetMail])
       ELSE /\ timers' = timers
            /\ Finish(i, Respond(reqs[i], 500))
    /\ chal' = IF ~sent /\ reqs[i].chalSeen.n = chal.n
               THEN [chal EXCEPT !.failed = TRUE] ELSE chal
    /\ UNCHANGED <<admins, gallery, generatedOTP, resetMail, userMail, clock,
                   lastReset, granted, tokens>>

\* lines 374-376: the callback of setTimeout
TimerFire ==
    /\ timers # <<>>
    /\ Head(timers) <= now
    /\ generatedOTP' = EmptyString
    /\ timers' = Tail(timers)
    /\ UNCHANGED <<admins, gallery, resetMail, userMail, clock, reqs, last, nreq,
                   hist>>

\* The clock advances by d seconds; a pending timer fires before the clock
\* passes its deadline.
Tick(d) ==
    /\ ticks < MaxTicks
    /\ d > 0
    /\ timers # <<>> => now + d <= Head(timers)
    /\ now' = now + d
    /\ ticks' = ticks + 1
    /\ UNCHANGED <<admins, gallery, otpVars, reqs, last, nreq, hist>>

\* the clock advances to the deadline of the next timer
TickToTimer ==
    /\ timers # <<>>
    /\ Head(timers) > now
    /\ Tick(Head(timers) - now)

-----------------------------------------------------------------------------
(* POST /otp-verification *)

\* The otp field of the body: a string of digits, digits followed by other
\* characters, a string with no leading digits, a JSON number, or absent.
OtpText(form, n) == [form |-> form, n |-> n]

\* parseInt(otp): the leading digits of the value's string form, else NaN
ParseInt(raw) ==
    IF raw.form \in {"digits", "digitsThenText", "number"} THEN Num(raw.n) ELSE NaN

\* VerifyCompare that checks that a code is pending but not that it is the one
\* presented
VerifyCompareAnyCode(body) ==
    /\ LET r == [Req("otp-verification", body) EXCEPT
                    !.at = now, !.chalSeen = chal, !.live = generatedOTP]
       IN  Arrive(IF generatedOTP # EmptyString
                  THEN [r EXCEPT !.pc = "findOne", !.mail = resetMail]
                  ELSE Respond(r, 401))
    /\ UNCHANGED <<admins, gallery, otpVars, clock, hist>>

\* lines 391-398, 409-411: parse, compare with generatedOTP, and on a match call
\* findOne with the resetMail read at that moment
VerifyCompare(body) ==
    /\ LET r == [Req("otp-verification", body) EXCEPT
                    !.at = now, !.chalSeen = chal, !.live = generatedOTP]
           otp == ParseInt(body.otp)
       IN  Arrive(IF StrictEquals(otp, generatedOTP)
                  THEN [r EXCEPT !.pc = "findOne", !.mail = resetMail]
                  ELSE Respond(r, 401))
    /\ UNCHANGED <<admins, gallery, otpVars, clock, hist>>

\* lines 398-402: findOne resolves and bcrypt.hash is called
VerifyFindOne(i) ==
    /\ Awaiting(i, "otp-verification", "findOne")
    /\ IF reqs[i].body.password = Undefined
       THEN Finish(i, Respond(reqs[i], 500))
       ELSE Continue(i, [reqs[i] EXCEPT !.pc = "hash",
                                        !.doc = FindByEmail(reqs[i].mail)])
    /\ UNCHANGED <<admins, gallery, otpVars, clock, hist>>

\* lines 402-405: the hash resolves, admin.password is assigned, save is called
VerifyHash(i) ==
    /\ Awaiting(i, "otp-verification", "hash")
    /\ IF reqs[i].doc = NullDoc
       THEN Finish(i, Respond(reqs[i], 500))
       ELSE Continue(i, [reqs[i] EXCEPT
                            !.pc = "save",
                            !.hashedPass = BcryptHash(reqs[i].body.password)])
    /\ UNCHANGED <<admins, gallery, otpVars, clock, hist>>

\* VerifySave without line 406: the code stays in generatedOTP
VerifySaveKeepsOtp(i) ==
    /\ Awaiting(i, "otp-verification", "save")
    /\ admins' = UpdatePassword(reqs[i].doc, reqs[i].hashedPass)
    /\ userMail' = ""
    /\ Finish(i, [Respond(reqs[i], 201) EXCEPT
                    !.again = (reqs[i].chalSeen.n \in chal.done)])
    /\ chal' = [chal EXCEPT !.used = TRUE, !.done = @ \cup {reqs[i].chalSeen.n}]
    /\ lastReset' = [lastReset EXCEPT ![reqs[i].mail] = reqs[i].body.password]
    /\ UNCHANGED <<gallery, generatedOTP, resetMail, timers, clock, granted, tokens>>

\* lines 405-408: save resolves, the OTP is cleared and 201 is sent
VerifySave(i) ==
    /\ Awaiting(i, "otp-verification", "save")
    /\ admins' = UpdatePassword(reqs[i].doc, reqs[i].hashedPass)
    /\ generatedOTP' = EmptyString
    /\ userMail' = ""
    /\ Finish(i, [Respond(reqs[i], 201) EXCEPT
                    !.again = (reqs[i].chalSeen.n \in chal.done)])
    /\ chal' = [chal EXCEPT !.used = TRUE, !.done = @ \cup {reqs[i].chalSeen.n}]
    /\ lastReset' = [lastReset EXCEPT ![reqs[i].mail] = reqs[i].body.password]
    /\ UNCHANGED <<gallery, resetMail, timers, clock, granted, tokens>>

-----------------------------------------------------------------------------
(* tokenAuthentication *)

\* An Authorization header value is a sequence of pieces: a space, a word
\* without spaces ("Bearer"), or the compact form of a token.
Space == [ch |-> " ", jwt |-> NoJwt]
Bearer == [ch |-> "Bearer", jwt |-> NoJwt]
TokenText(tok) == [ch |-> "jwt", jwt |-> tok]

NoHeader == [present |-> FALSE, text |-> <<>>]
Header(text) == [present |-> TRUE, text |-> text]

\* text.split(' '): the pieces between the spaces, '' between adjacent spaces
RECURSIVE Split(_)
Split(text) ==
    IF text = <<>> THEN << <<>> >>
    ELSE LET rest == Split(Tail(text))
         IN  IF Head(text) = Space
             THEN << <<>> >> \o rest
             ELSE << <<Head(text)>> \o rest[1] >> \o Tail(rest)

\* TokenAuthentication with jwt.decode in the place of jwt.verify: any token
\* text passes
TokenAuthenticationDecodeOnly(h, t) ==
    IF ~h.present \/ h.text = <<>> THEN "missing"
    ELSE LET parts == Split(h.text)
             token == IF Len(parts) >= 2 THEN parts[2] ELSE <<>>
         IN  IF token = <<>> THEN "malformed"
             ELSE IF Len(token) = 1 /\ token[1].jwt # NoJwt THEN "next"
             ELSE "forbidden"

\* lines 124-150: which way the middleware leaves, at clock reading t
TokenAuthentication(h, t) ==
    IF ~h.present \/ h.text = <<>> THEN "missing"
    ELSE LET parts == Split(h.text)
             token == IF Len(parts) >= 2 THEN parts[2] ELSE <<>>
         IN  IF token = <<>> THEN "malformed"
             ELSE IF Len(token) = 1 /\ JwtVerify(token[1].jwt, t) THEN "next"
             ELSE "forbidden"

\* the status the middleware answers with when it does not call next()
AuthStatus(outcome) ==
    CASE outcome = "missing" -> 401
      [] outcome = "malformed" -> 401
      [] outcome = "forbidden" -> 403
      [] OTHER -> 0

-----------------------------------------------------------------------------
(* POST /gallery and DELETE /gallery *)

\* gallerySchema: name and imageUrl are required
ImageValid(name, imageUrl) == Required(name) /\ Required(imageUrl)

\* lines 221-232 behind tokenAuthentication: rejected, or save is called
GalleryPost(h, body) ==
    /\ LET outcome == TokenAuthentication(h, now)
           r == [Req("post-gallery", [header |-> h, name |-> body.name,
                                      imageUrl |-> body.imageUrl])
                    EXCEPT !.auth = outcome, !.at = now]
       IN  Arrive(IF outcome = "next"
                  THEN [r EXCEPT !.pc = "save", !.details = body]
                  ELSE Respond(r, AuthStatus(outcome)))
    /\ UNCHANGED <<admins, gallery, otpVars, clock, hist>>

\* lines 232-242: save validates and inserts
GalleryPostSave(i) ==
    /\ Awaiting(i, "post-gallery", "save")
    /\ LET b == reqs[i].details
       IN  IF ImageValid(b.name, b.imageUrl)
           THEN /\ gallery' = Append(gallery, [name |-> b.name, imageUrl |-> b.imageUrl])
                /\ Finish(i, Respond(reqs[i], 201))
           ELSE /\ gallery' = gallery
                /\ Finish(i, Respond(reqs[i], 500))
    /\ UNCHANGED <<admins, otpVars, clock, hist>>

\* lines 246-251 behind tokenAuthentication: rejected, or findOne is called
GalleryDelete(h, body) ==
    /\ LET outcome == TokenAuthentication(h, now)
           r == [Req("delete-gallery", [header |-> h, imageName |-> body.imageName])
                    EXCEPT !.auth = outcome, !.at = now]
       IN  Arrive(IF outcome = "next"
                  THEN [r EXCEPT !.pc = "findOne", !.details = body]
                  ELSE Respond(r, AuthStatus(outcome)))
    /\ UNCHANGED <<admins, gallery, otpVars, clock, hist>>

ImagesNamed(n) == {k \in DOMAIN gallery : gallery[k].name = n}

\* lines 251-256: findOne resolves; 404, or findOneAndDelete is called
GalleryDeleteFindOne(i) ==
    /\ Awaiting(i, "delete-gallery", "findOne")
    /\ IF ImagesNamed(reqs[i].details.imageName) = {}
       THEN Finish(i, Respond(reqs[i], 404))
       ELSE Continue(i, [reqs[i] EXCEPT !.pc = "delete"])
    /\ UNCHANGED <<admins, gallery, otpVars, clock, hist>>

\* Gallery.findOneAndDelete({name}): the first match, if there still is one, goes
RemoveImage(n) ==
    LET S == ImagesNamed(n)
    IN  IF S = {} THEN gallery ELSE Remove(gallery, Min(S))

\* lines 256-259: findOneAndDelete resolves and 200 is sent
GalleryDeleteRemove(i) ==
    /\ Awaiting(i, "delete-gallery", "delete")
    /\ gallery' = RemoveImage(reqs[i].details.imageName)
    /\ Finish(i, Respond(reqs[i], 200))
    /\ UNCHANGED <<admins, otpVars, clock, hist>>

-----------------------------------------------------------------------------
(* Inputs *)

Emails == {"a@x.com", "b@x.com"}

SignupBodies ==
    [name : {"Al"}, mobile : {"555", "a@x.com"}, email : Emails,
     password : {"pw1", "pw2"}]

LoginBodies ==
    [username : {"a@x.com", "555"}, password : {"pw1", "pw2", Undefined}]

GenerateBodies == [userMail : Emails]

OtpInputs ==
    {OtpText("digits", c) : c \in OtpCodes} \cup {OtpText("text", 0)}

VerifyBodies == [otp : OtpInputs, password : {"pw2"}]

ResetLoginBodies == [username : {"a@x.com"}, password : {"pw1", "pw2"}]

\* a store that two earlier signups leave behind
Admin(id, name, mobile, email, plain) ==
    [id |-> id, name |-> name, email |-> email, mobile |-> mobile,
     password |-> BcryptHash(plain)]

SeedStore == << Admin(1, "Al", "a@x.com", "b@x.com", "pw1"),
                Admin(2, "Al", "555", "a@x.com", "pw1") >>

-----------------------------------------------------------------------------
(* Specifications *)

InitWith(store) ==
    /\ admins = store
    /\ gallery = <<>>
    /\ generatedOTP = EmptyString
    /\ resetMail = ""
    /\ userMail = Undefined
    /\ timers = <<>>
    /\ now = 0
    /\ reqs = <<>>
    /\ last = NoReq
    /\ nreq = 0
    /\ chal = NoChallenge
    /\ lastReset = [e \in Emails |-> Undefined]
    /\ granted = {}
    /\ tokens = {}
    /\ ticks = 0

\* the process starts on an empty database
Init == InitWith(<<>>)

\* signup and login
NextAccounts ==
    \/ \E body \in SignupBodies : SignupFindOne(body)
    \/ \E i \in DOMAIN reqs : SignupHash(i)
    \/ \E i \in DOMAIN reqs : SignupSave(i)
    \/ \E body \in LoginBodies : LoginFindOne(body)
    \/ \E i \in DOMAIN reqs : LoginCompare(i)

SpecAccounts == Init /\ [][NextAccounts]_vars

\* the process starts on a database that earlier signups filled
InitReset == InitWith(SeedStore)

\* the password reset, with login and the clock
NextReset ==
    \/ \E body \in GenerateBodies : GenerateFindOne(body)
    \/ \E i \in DOMAIN reqs : \E sent \in BOOLEAN : GenerateSendMail(i, sent)
    \/ \E body \in VerifyBodies : VerifyCompare(body)
    \/ \E i \in DOMAIN reqs : VerifyFindOne(i)
    \/ \E i \in DOMAIN reqs : VerifyHash(i)
    \/ \E i \in DOMAIN reqs : VerifySave(i)
    \/ \E body \in ResetLoginBodies : LoginFindOne(body)
    \/ \E i \in DOMAIN reqs : LoginCompare(i)
    \/ TimerFire
    \/ \E d \in {1, OtpTimeout} : Tick(d)
    \/ TickToTimer

SpecReset == InitReset /\ [][NextReset]_vars

\* the password reset alone, the clock moving from deadline to deadline
NextOtp ==
    \/ \E body \in GenerateBodies : GenerateFindOne(body)
    \/ \E i \in DOMAIN reqs : \E sent \in BOOLEAN : GenerateSendMail(i, sent)
    \/ \E body \in VerifyBodies : VerifyCompare(body)
    \/ \E i \in DOMAIN reqs : VerifyFindOne(i)
    \/ \E i \in DOMAIN reqs : VerifyHash(i)
    \/ \E i \in DOMAIN reqs : VerifySave(i)
    \/ TimerFire
    \/ TickToTimer

SpecOtp == InitReset /\ [][NextOtp]_vars

\* what a caller can put in the Authorization header: a token it was handed,
\* that token with its expiry pushed back, or a token signed with another key
Tampered(tok) == [tok EXCEPT !.exp = tok.exp + TokenLifetime]
Forged == JwtSign(1, "a@x.com", OtherKey, now)
Presentable == tokens \cup {Tampered(tok) : tok \in tokens} \cup {Forged}

Headers ==
    {NoHeader, Header(<<>>), Header(<<Bearer>>), Header(<<Bearer, Space, Bearer>>)}
    \cup {Header(<<Bearer, Space, TokenText(tok)>>) : tok \in Presentable}
    \cup {Header(<<TokenText(tok)>>) : tok \in Presentable}
    \cup {Header(<<Bearer, Space, Space, TokenText(tok)>>) : tok \in Presentable}

AuthLoginBodies == [username : {"a@x.com"}, password : {"pw1"}]
ImageBodies == [name : {"sea"}, imageUrl : {"http://x/sea.png", Undefined}]
DeleteBodies == [imageName : {"sea"}]

\* login, the protected gallery operations and the clock
NextAuth ==
    \/ \E body \in AuthLoginBodies : LoginFindOne(body)
    \/ \E i \in DOMAIN reqs : LoginCompare(i)
    \/ \E h \in Headers : \E body \in ImageBodies : GalleryPost(h, body)
    \/ \E i \in DOMAIN reqs : GalleryPostSave(i)
    \/ \E h \in Headers : \E body \in DeleteBodies : GalleryDelete(h, body)
    \/ \E i \in DOMAIN reqs : GalleryDeleteFindOne(i)
    \/ \E i \in DOMAIN reqs : GalleryDeleteRemove(i)
    \/ \E d \in {1, TokenLifetime - 1} : Tick(d)

SpecAuth == InitReset /\ [][NextAuth]_vars

RecordSignupBodies ==
    [name : {"Al"}, mobile : {"555", "777"}, email : {"c@x.com"},
     password : {"pw1", Undefined}]

TokenHeaders == {NoHeader} \cup {Header(<<Bearer, Space, TokenText(tok)>>) : tok \in tokens}

RecordImageBodies == [name : {"sea"}, imageUrl : {"http://x/sea.png"}]

\* every operation that touches the Admin collection, with the middleware and
\* the expiry timer
NextRecords ==
    \/ \E body \in RecordSignupBodies : SignupFindOne(body)
    \/ \E i \in DOMAIN reqs : SignupHash(i)
    \/ \E i \in DOMAIN reqs : SignupSave(i)
    \/ \E body \in AuthLoginBodies : LoginFindOne(body)
    \/ \E i \in DOMAIN reqs : LoginCompare(i)
    \/ \E body \in GenerateBodies : GenerateFindOne(body)
    \/ \E i \in DOMAIN reqs : \E sent \in BOOLEAN : GenerateSendMail(i, sent)
    \/ \E body \in VerifyBodies : VerifyCompare(body)
    \/ \E i \in DOMAIN reqs : VerifyFindOne(i)
    \/ \E i \in DOMAIN reqs : VerifyHash(i)
    \/ \E i \in DOMAIN reqs : VerifySave(i)
    \/ \E h \in TokenHeaders : \E body \in RecordImageBodies : GalleryPost(h, body)
    \/ \E i \in DOMAIN reqs : GalleryPostSave(i)
    \/ TimerFire
    \/ TickToTimer

SpecRecords == InitReset /\ [][NextRecords]_vars

\* generate-otp for the emails that have a record and for one that has none
FrameGenerateBodies == [userMail : Emails \cup {"c@x.com"}]

\* otp values: each code, 0, a code followed by letters, letters, no otp at all
FrameOtpInputs ==
    {OtpText("digits", c) : c \in OtpCodes \cup {0}}
    \cup {OtpText("digitsThenText", OtpMin), OtpText("text", 0), OtpText("absent", 0)}

FrameVerifyBodies == [otp : FrameOtpInputs, password : {"pw2"}]

\* the password reset on these inputs, the clock moving from deadline to deadline
NextFrame ==
    \/ \E body \in FrameGenerateBodies : GenerateFindOne(body)
    \/ \E i \in DOMAIN reqs : \E sent \in BOOLEAN : GenerateSendMail(i, sent)
    \/ \E body \in FrameVerifyBodies : VerifyCompare(body)
    \/ \E i \in DOMAIN reqs : VerifyFindOne(i)
    \/ \E i \in DOMAIN reqs : VerifyHash(i)
    \/ \E i \in DOMAIN reqs : VerifySave(i)
    \/ TimerFire
    \/ TickToTimer

SpecFrame == InitReset /\ [][NextFrame]_vars

\* signup bodies in which a field may be absent or the empty string
PartialSignupBodies ==
    [name : {"Al", "", Undefined}, mobile : {"555", ""},
     email : {"a@x.com", Undefined}, password : {"pw1", "", Undefined}]

\* signup alone, on every such body
NextSignup ==
    \/ \E body \in PartialSignupBodies : SignupFindOne(body)
    \/ \E i \in DOMAIN reqs : SignupHash(i)
    \/ \E i \in DOMAIN reqs : SignupSave(i)

SpecSignup == Init /\ [][NextSignup]_vars

-----------------------------------------------------------------------------
(* Properties *)

\* C1: of the signup requests that carry the same email, however their lookups,
\* hashes and inserts interleave, at most one is answered 201 Created.
C1_OneSignupPerEmail ==
    ~(last.kind = "signup" /\ last.status = 201 /\ last.again)

\* C2: in every reachable state no two admin records share an email and no two
\* share a mobile.
C2_UniqueEmailAndMobile ==
    \A i, j \in DOMAIN admins :
        i # j => /\ admins[i].email # admins[j].email
                 /\ admins[i].mobile # admins[j].mobile

\* the request presents the code of the challenge that was the latest one stored
\* when it came in
PresentsStoredCode(r) ==
    /\ r.kind = "otp-verification"
    /\ r.chalSeen.n > 0
    /\ StrictEquals(ParseInt(r.body.otp), r.chalSeen.code)

\* C3: a verification that presents the code of the latest stored challenge 600 s
\* or more after that challenge was stored is answered 401 InvalidOtp, whether or
\* not the challenge's mail was sent.
C3_StaleCodeRejected ==
    (PresentsStoredCode(last) /\ last.at >= last.chalSeen.issuedAt + OtpTimeout)
        => last.status = 401

\* C4: a stored challenge that has been neither verified nor overwritten is live,
\* its code the one generatedOTP holds, until 600 s after it was stored; the
\* timer of an earlier challenge does not clear it.
C4_ChallengeLiveForTenMinutes ==
    (chal.n > 0 /\ ~chal.used /\ now < chal.issuedAt + OtpTimeout)
        => generatedOTP = chal.code

\* C5: once a verification has completed successfully, and until generate-otp
\* stores a new challenge, every verification that comes in is answered 401
\* InvalidOtp at once, whatever code it presents: none goes on to change a
\* password.
C5_SingleUse ==
    /\ \A i \in DOMAIN reqs :
          reqs[i].kind = "otp-verification" => ~reqs[i].chalSeen.used
    /\ (last.kind = "otp-verification" /\ last.chalSeen.used) => last.status = 401

\* C5 witness: the code that was just used is presented again and refused
C5_CodeReusedAndRefused ==
    /\ PresentsStoredCode(last)
    /\ last.chalSeen.used
    /\ last.status = 401
    /\ lastReset[last.chalSeen.mail] # Undefined

\* C6: no response carries the code that generatedOTP holds when it is sent.
C6_CodeNotInResponse ==
    ~(last.status # 0 /\ last.otp.t = "number" /\ StrictEquals(last.otp, last.live))

\* the header has the form "<scheme> <token>...": a word, one space, a word
Carries(h) ==
    /\ h.present
    /\ Len(h.text) >= 3
    /\ h.text[1] # Space /\ h.text[2] = Space /\ h.text[3] # Space

CarriedToken(h) == h.text[3].jwt

\* the header carries a token that jwt.verify accepts at clock reading t
Accepted(h, t) == Carries(h) /\ JwtVerify(CarriedToken(h), t)

IsProtected(r) == r.kind \in {"post-gallery", "delete-gallery"}

C7_AnswerByHeader ==
    /\ \A i \in DOMAIN reqs :
          IsProtected(reqs[i]) => Accepted(reqs[i].body.header, reqs[i].at)
    /\ IsProtected(last) =>
          LET h == last.body.header
          IN  /\ (~h.present \/ h.text = <<>>)
                    => (last.status = 401 /\ last.auth = "missing")
              /\ (h.present /\ h.text # <<>> /\ ~Carries(h))
                    => (last.status = 401 /\ last.auth = "malformed")
              /\ (Carries(h) /\ ~JwtVerify(CarriedToken(h), last.at))
                    => (last.status = 403 /\ last.auth = "forbidden")
              /\ Accepted(h, last.at)
                    => (last.auth = "next" /\ last.status \in {200, 201, 404, 500})

C7_StoreOnlyBehindGuard ==
    /\ gallery' # gallery => (IsProtected(last') /\ Accepted(last'.body.header, last'.at))
    /\ (nreq' # nreq /\ last' # last /\ IsProtected(last') /\ last'.auth # "next")
          => UNCHANGED <<admins, gallery, reqs>>

\* C7: a protected operation runs its handler only for a request whose header
\* carries a token that jwt.verify accepts when the request comes in; an absent
\* header is answered 401 (missing), a header that is not "<scheme> <token>" 401
\* (malformed), a token that fails verification 403, and a rejected request
\* starts no handler and leaves the store as it was.
C7_ProtectedBehindValidToken == []C7_AnswerByHeader /\ [][C7_StoreOnlyBehindGuard]_vars

\* C7 witness: a malformed header is answered 401 after an accepted request has
\* added an image
C7_MalformedRefusedAfterUpload ==
    /\ IsProtected(last) /\ last.auth = "malformed" /\ last.status = 401
    /\ gallery # <<>>

SignatureMatches(tok) == tok.key = Secret /\ tok.signedExp = tok.exp

C8_AnswerByAge ==
    \A r \in {reqs[i] : i \in DOMAIN reqs} \cup {last} :
        (IsProtected(r) /\ Carries(r.body.header)) =>
            LET tok == CarriedToken(r.body.header)
            IN  /\ tok \in tokens =>
                      /\ (r.auth = "next") <=> (r.at < tok.iat + TokenLifetime)
                      /\ (r.at >= tok.iat + TokenLifetime) => r.status = 403
                /\ ~SignatureMatches(tok) => (r.auth = "forbidden" /\ r.status = 403)

C8_IssuedNow ==
    \A tok \in tokens' \ tokens : tok.iat = now /\ SignatureMatches(tok)

\* C8: a token that login issued at time t is accepted by the middleware at
\* every t' with t <= t' < t + 3600 s and rejected (403) at every t' >= t + 3600 s;
\* a token whose signature does not match the secret is rejected at every time.
C8_TokenValidForOneHour == []C8_AnswerByAge /\ [][C8_IssuedNow]_vars

\* C8 witness: an issued token is presented exactly 3600 s after its issue and
\* refused
C8_RefusedAtTheHour ==
    /\ IsProtected(last) /\ Carries(last.body.header)
    /\ CarriedToken(last.body.header) \in tokens
    /\ last.at = CarriedToken(last.body.header).iat + TokenLifetime
    /\ last.status = 403

\* the records of the store, as login's lookup saw it, that username names
Named(r) ==
    {k \in DOMAIN r.seen : r.seen[k].email = r.body.username
                           \/ r.seen[k].mobile = r.body.username}

\* C9: a login with a username and a password is answered 404 when no record has
\* that email or mobile, 200 with a token for the record and the username exactly
\* when a record has it and the password verifies against that record's hash,
\* and 401 when records have it and the password verifies against none.
C9_LoginByRecord ==
    (last.kind = "login" /\ last.body.password # Undefined) =>
        LET verifying == {k \in Named(last) :
                            BcryptCompare(last.body.password, last.seen[k].password)}
        IN  /\ Named(last) = {} => last.status = 404
            /\ (Named(last) # {} /\ verifying = {}) => last.status = 401
            /\ verifying # {} <=> last.status = 200
            /\ last.status = 200 =>
                  /\ last.jwtToken.id \in verifying
                  /\ last.jwtToken.username = last.body.username

\* C10: once a reset for email e has completed with password p2, and until the
\* next reset for e, login(e, p2) is answered 200 and login(e, p1) with any other
\* password 401.
C10_LoginAfterReset ==
    (last.kind = "login" /\ last.resetSeen # Undefined) =>
        IF last.body.password = last.resetSeen
        THEN last.status = 200
        ELSE last.status = 401

\* the seeded store is one that two signups, one after the other, leave behind
SeedStoreNotReached == admins # SeedStore

\* this step is the one in which a request of that kind gets its answer
Answers(kind, status) ==
    /\ nreq' = nreq
    /\ Len(reqs') < Len(reqs)
    /\ last'.kind = kind
    /\ last'.status = status

C11_NewChallengeTakesTheSlot ==
    chal'.n # chal.n => (generatedOTP' = chal'.code /\ resetMail' = chal'.mail)

C11_SuccessWritesLatestTarget ==
    Answers("otp-verification", 201) =>
        \A k \in DOMAIN admins :
            admins'[k] = IF admins[k].email = chal.mail
                         THEN [admins[k] EXCEPT !.password = last'.hashedPass]
                         ELSE admins[k]

\* C11: a generate-otp that stores a challenge makes its code and its target the
\* live ones, whatever was pending; and every verification answered 201 after
\* that writes the password of the record whose email is the target of the most
\* recently stored challenge, and of no other record.
C11_LatestChallengeWins ==
    [][C11_NewChallengeTakesTheSlot /\ C11_SuccessWritesLatestTarget]_vars

C12_FailureLeavesSlot ==
    Answers("generate-otp", 500) =>
        UNCHANGED <<generatedOTP, resetMail, timers, admins>>

C12_SlotKept ==
    (chal.failed /\ ~chal.used /\ now < chal.issuedAt + OtpTimeout)
        => (generatedOTP = chal.code /\ resetMail = chal.mail)

C12_CodeStillAccepted ==
    (/\ PresentsStoredCode(last)
     /\ last.chalSeen.failed /\ ~last.chalSeen.used
     /\ last.at < last.chalSeen.issuedAt + OtpTimeout)
        => last.status = 201

\* C12: when sendMail rejects, generate-otp is answered 500 and nothing is rolled
\* back: as long as the challenge that request stored is the latest one, unused
\* and younger than 600 s, the slot holds its code and its target, and a
\* verification that presents that code is answered 201.
C12_FailedMailKeepsChallenge ==
    []C12_SlotKept /\ []C12_CodeStillAccepted /\ [][C12_FailureLeavesSlot]_vars

\* the records differ in their password and in nothing else
OnlyPasswordDiffers(old, new) == new = [old EXCEPT !.password = new.password]

C13_Created ==
    /\ Answers("signup", 201)
    /\ Len(admins') = Len(admins) + 1
    /\ SubSeq(admins', 1, Len(admins)) = admins

C13_PasswordReset ==
    /\ Answers("otp-verification", 201)
    /\ last'.live.t = "number"
    /\ ParseInt(last'.body.otp) = last'.live
    /\ Len(admins') = Len(admins)
    /\ \A k \in DOMAIN admins : OnlyPasswordDiffers(admins[k], admins'[k])
    /\ Cardinality({k \in DOMAIN admins : admins'[k] # admins[k]}) = 1

C13_RecordsStep ==
    /\ admins' # admins => (C13_Created \/ C13_PasswordReset)
    /\ Answers("signup", 201) => C13_Created

\* C13: the Admin collection changes in two ways only: a signup answered 201
\* appends one record, and a verification whose presented code was the live
\* code when it came in replaces the password of one record; nothing removes
\* a record or changes another field, and signup 409/500, login, generate-otp,
\* the middleware and the timer leave the collection as it is.
C13_RecordsOnlyBySignupAndReset == [][C13_RecordsStep]_vars

\* C13 witness: a record that a signup of this run created stands next to one
\* whose password a verification has replaced
C13_CreatedAndReset ==
    /\ granted # {}
    /\ \E e \in Emails : lastReset[e] # Undefined
    /\ \E k \in DOMAIN admins : admins[k].password = BcryptHash("pw2")

\* the four fields of the body are present and non-empty
AllFieldsGiven(body) ==
    \A v \in {body.name, body.email, body.mobile, body.password} :
        v # Undefined /\ v # ""

C14_RejectedWhenIncomplete ==
    (last.kind = "signup" /\ ~AllFieldsGiven(last.body)) => last.status \in {409, 500}

C14_RejectionPersistsNothing ==
    (\E status \in {409, 500} : Answers("signup", status)) => admins' = admins

\* C14: a signup whose name, email, mobile or password is absent or the empty
\* string is answered with an error and adds no record; 201 is answered only
\* when all four are present and non-empty.
C14_SignupNeedsAllFields ==
    []C14_RejectedWhenIncomplete /\ [][C14_RejectionPersistsNothing]_vars

\* the protected requests in flight, and the last one answered if it is one
ProtectedRequests == {r \in {reqs[i] : i \in DOMAIN reqs} \cup {last} : IsProtected(r)}

\* the identity a token carries: the payload login signed
Identity(tok) == [id |-> tok.id, username |-> tok.username]

C15_DetailsAreIdentity ==
    \A r \in ProtectedRequests :
        r.auth = "next" => r.details = Identity(CarriedToken(r.body.header))

C15_OutcomeByHeaderAlone ==
    \A r1, r2 \in ProtectedRequests :
        (r1.body.header = r2.body.header /\ r1.at = r2.at) => r1.auth = r2.auth

\* C15: what the middleware attaches to an accepted request for its handler is
\* the identity its token carries (id and username), and at a given clock
\* reading two requests with the same Authorization header leave the middleware
\* the same way, whatever their bodies.
C15_AttachesVerifiedIdentity == C15_DetailsAreIdentity /\ C15_OutcomeByHeaderAlone

\* C16: of the verifications that matched the code of one challenge, however
\* their comparisons, lookups, hashes and saves interleave, at most one is
\* answered 201 and writes a password.
C16_OneSuccessPerChallenge ==
    ~(last.kind = "otp-verification" /\ last.status = 201 /\ last.again)

\* C17: a verification answered 201 clears the challenge whose code it matched
\* and no other: when generate-otp has stored a newer challenge since the
\* comparison, that challenge's code is still in generatedOTP after the answer.
C17_ClearsOnlyMatchedChallenge ==
    [][(Answers("otp-verification", 201) /\ last'.chalSeen.n # chal.n)
          => generatedOTP' = generatedOTP]_vars

\* no code is pending when the request comes in, or the otp it presents does not
\* read as the pending code
NothingToMatch(r) == r.live = EmptyString \/ ParseInt(r.body.otp) # r.live

C18_Refused ==
    /\ \A i \in DOMAIN reqs :
          reqs[i].kind = "otp-verification" => ~NothingToMatch(reqs[i])
    /\ (last.kind = "otp-verification" /\ NothingToMatch(last)) => last.status = 401

C18_RefusalChangesNothing ==
    (nreq' # nreq /\ reqs' = reqs /\ last'.kind = "otp-verification")
        => (last'.status = 401 /\ UNCHANGED <<generatedOTP, resetMail, timers, admins>>)

\* C18: a verification that comes in when generatedOTP is '' (at the start,
\* after a completed verification, after the timer), or with an otp that does
\* not read as the pending code, is answered 401 at once, whatever the otp, and
\* changes neither generatedOTP, resetMail nor any record.
C18_NoMatchNoEffect == []C18_Refused /\ [][C18_RefusalChangesNothing]_vars

\* C18 witness: after a completed reset the otp "0" is presented and refused
C18_ZeroRefusedAfterReset ==
    /\ last.kind = "otp-verification" /\ last.status = 401
    /\ last.body.otp = OtpText("digits", 0)
    /\ last.live = EmptyString
    /\ last.chalSeen.used

\* no record has that email
Unknown(e) == \A k \in DOMAIN admins : admins[k].email # e

C19_UnknownEmailStep ==
    /\ (nreq' # nreq /\ reqs' = reqs /\ last'.kind = "generate-otp")
          => /\ Unknown(last'.body.userMail)
             /\ last'.status = 404
             /\ UNCHANGED <<generatedOTP, resetMail, timers, admins>>
    /\ (nreq' # nreq /\ reqs' # reqs /\ reqs'[Len(reqs')].kind = "generate-otp")
          => ~Unknown(reqs'[Len(reqs')].body.userMail)

\* C19: a generate-otp for an email that no record has is answered 404 at once:
\* it gets no further than the lookup (no mail, no timer) and leaves
\* generatedOTP and resetMail as they were, so a pending challenge stays live
\* with its code and target; only a request for a known email goes on.
C19_UnknownEmailChangesNothing == [][C19_UnknownEmailStep]_vars

\* C19 witness: a request for an unknown email was answered 404 while the
\* challenge for a@x.com is pending, its timer armed
C19_PendingSurvivesUnknown ==
    /\ last.kind = "generate-otp" /\ last.status = 404
    /\ generatedOTP = chal.code /\ resetMail = "a@x.com"
    /\ timers # <<>>

\* C20: however generate-otp requests for different emails interleave, the code
\* a request's response shows is the code that request generated and mailed to
\* its own target, never the code of another request's challenge.
C20_ResponseShowsOwnCode ==
    (/\ last.kind = "generate-otp" /\ last.status = 200 /\ last.otp.t = "number"
     /\ last.mail # last.body.userMail)
        => last.otp = last.stored

=============================================================================
